---- MODULE Spec2Model ----
(***************************************************************************)
(* A model of data/dataloader.py (class Dataloader): the pipeline          *)
(* source_to_data = set_balance -> set_additional_columns ->               *)
(* make_data_array (lens, then non-lens) -> combine_lens_nonlens ->        *)
(* shuffle_data -> np.save (features, labels).                             *)
(*                                                                         *)
(* A DataFrame is a sequence of rows (records keyed by column name); the   *)
(* frames the program allocates live in `frames`, and self.lens /          *)
(* self.nonlens are references into it, so that in-place mutation and      *)
(* aliasing are visible.  Floats produced by the pivots (means) are        *)
(* reduced fractions <<num, den>>; NaN is the empty tuple <<>>.            *)
(* Column names are real strings: sequences of characters compared by      *)
(* code point, as pandas' sort_index does on object columns.               *)
(* The constructor options lightcurve_only and onehot_filters are state;   *)
(* debug only adds prints and is left out.                                 *)
(***************************************************************************)
EXTENDS Integers, Sequences, FiniteSets, TLC

VARIABLES
    entry,               \* the method the caller invoked
    pc,                  \* the next statement of that method to run
    abort_at,            \* the source line whose assertion/exception ended the run
    trace,               \* history: the stages that have completed, in order
    frames,              \* the DataFrame objects: name -> table
    self_lens,           \* self.lens: a reference into frames
    self_nonlens,        \* self.nonlens: a reference into frames
    NUM_POSITIVES,       \* self.NUM_POSITIVES
    NUM_TIMES,           \* self.NUM_TIMES
    observation_cutoff,  \* self.observation_cutoff
    lightcurve_only,     \* self.lightcurve_only
    onehot_filters,      \* self.onehot_filters
    before_derive,       \* history: the argument tables as set_additional_columns got them
    X_lens, y_lens,      \* locals of source_to_data
    X_nonlens, y_nonlens,
    X, y,                \* locals of source_to_data: the combined, then shuffled arrays
    combined,            \* history: (X, y) as combine_lens_nonlens returned them
    p,                   \* the permutation shuffle_data drew
    pivots,              \* history: pivot_table calls made by the last make_data_array
    dummies,             \* history: whether the last make_data_array one-hot encoded
    features_file,       \* the file at features_path: <<>> while absent, <<X>> once written
    labels_file          \* the file at labels_path

vars == <<entry, pc, abort_at, trace, frames, self_lens, self_nonlens, NUM_POSITIVES,
          NUM_TIMES, observation_cutoff, lightcurve_only, onehot_filters, before_derive,
          X_lens, y_lens, X_nonlens, y_nonlens, X, y, combined, p, pivots, dummies,
          features_file, labels_file>>

----------------------------------------------------------------------------
(* Bounds of the model *)

\* time slots (distinct MJD values) of the generated source tables
NumSlots == 3
\* largest axis length of the tensors handed directly to combine_lens_nonlens
MaxDim == 2
\* numbers of objects in the generated lens / non-lens source tables
LensCounts == {1, 2}
NonlensCounts == {1, 2, 3}

----------------------------------------------------------------------------
(* Program constants *)

NUM_FILTERS == 5
\* np.inf, the default observation_cutoff: a value above every MJD of the model
Infinity == 1000000
\* the sentinel make_data_array writes into null cells
SENTINEL == -9999
\* self.NUM_TIMES = None until set_balance is called
None == -1

ugriz == <<"u", "g", "r", "i", "z">>
\* self.attributes when lightcurve_only is set
lightcurve_attributes == <<"apMag", "apMagErr", "d_time">>
\* self.attributes otherwise
all_attributes ==
    <<"psf_fwhm", "x", "y", "apFlux", "apFluxErr", "apMag", "apMagErr", "trace",
      "e1", "e2", "e", "phi", "d_time">>
\* self.attributes
attributes == IF lightcurve_only THEN lightcurve_attributes ELSE all_attributes
\* self.NUM_ATTRIBUTES
NUM_ATTRIBUTES == Len(attributes)

----------------------------------------------------------------------------
(* Strings: a string is the sequence of its characters *)

Digits == <<"0", "1", "2", "3", "4", "5", "6", "7", "8", "9">>
Upper ==
    <<"A", "B", "C", "D", "E", "F", "G", "H", "I", "J", "K", "L", "M",
      "N", "O", "P", "Q", "R", "S", "T", "U", "V", "W", "X", "Y", "Z">>
Lower ==
    <<"a", "b", "c", "d", "e", "f", "g", "h", "i", "j", "k", "l", "m",
      "n", "o", "p", "q", "r", "s", "t", "u", "v", "w", "x", "y", "z">>

\* ord(c)
Code ==
    [c \in {Digits[k] : k \in 1..10} \cup {Upper[k] : k \in 1..26}
            \cup {Lower[k] : k \in 1..26} \cup {"_"} |->
        IF c = "_" THEN 95
        ELSE IF \E k \in 1..10 : Digits[k] = c THEN 47 + (CHOOSE k \in 1..10 : Digits[k] = c)
        ELSE IF \E k \in 1..26 : Upper[k] = c THEN 64 + (CHOOSE k \in 1..26 : Upper[k] = c)
        ELSE 96 + (CHOOSE k \in 1..26 : Lower[k] = c)]

\* the characters of the column names
Spell ==
    [u |-> <<"u">>, g |-> <<"g">>, r |-> <<"r">>, i |-> <<"i">>, z |-> <<"z">>,
     psf_fwhm |-> <<"p","s","f","_","f","w","h","m">>,
     x |-> <<"x">>,
     y |-> <<"y">>,
     apFlux |-> <<"a","p","F","l","u","x">>,
     apFluxErr |-> <<"a","p","F","l","u","x","E","r","r">>,
     apMag |-> <<"a","p","M","a","g">>,
     apMagErr |-> <<"a","p","M","a","g","E","r","r">>,
     trace |-> <<"t","r","a","c","e">>,
     e1 |-> <<"e","1">>,
     e2 |-> <<"e","2">>,
     e |-> <<"e">>,
     phi |-> <<"p","h","i">>,
     d_time |-> <<"d","_","t","i","m","e">>]

\* Python's str < str: lexicographic by code point, a proper prefix first
RECURSIVE StrLess(_, _)
StrLess(s, t) ==
    IF s = <<>> THEN t # <<>>
    ELSE IF t = <<>> THEN FALSE
    ELSE IF Head(s) # Head(t) THEN Code[Head(s)] < Code[Head(t)]
    ELSE StrLess(Tail(s), Tail(t))

\* f + '_' + a, for every filter f and attribute a
filter_attribute_names ==
    [f \in {"u", "g", "r", "i", "z"} |->
        [a \in DOMAIN Spell \ {"u", "g", "r", "i", "z"} |-> Spell[f] \o <<"_">> \o Spell[a]]]

\* f + '_' + a
FilterAttr(f, a) == filter_attribute_names[f][a]

\* list(product(xs, ys)): the pairs, first component varying slowest
Product(xs, ys) ==
    [k \in 1..(Len(xs) * Len(ys)) |->
        <<xs[((k - 1) \div Len(ys)) + 1], ys[((k - 1) % Len(ys)) + 1]>>]

\* [f + '_' + a for a, f in list(product(attrs, 'ugriz'))], for either
\* attribute list
filtered ==
    [lc \in BOOLEAN |->
        LET pairs == Product(IF lc THEN lightcurve_attributes ELSE all_attributes, ugriz)
        IN  [k \in 1..Len(pairs) |-> FilterAttr(pairs[k][2], pairs[k][1])]]

\* self.filtered_attributes
filtered_attributes == filtered[lightcurve_only]

----------------------------------------------------------------------------
(* Generic sequence helpers (numpy / pandas primitives) *)

Range(s) == {s[k] : k \in 1..Len(s)}

Column(table, col) == [k \in 1..Len(table) |-> table[k][col]]

\* Series.nunique()
nunique(s) == Cardinality(Range(s))

\* Series.unique(): the distinct values in order of first appearance
RECURSIVE unique(_)
unique(s) ==
    IF s = <<>> THEN <<>>
    ELSE LET init == unique(SubSeq(s, 1, Len(s) - 1))
             last == s[Len(s)]
         IN  IF last \in Range(init) THEN init ELSE Append(init, last)

\* s[:n]
Take(s, n) == SubSeq(s, 1, IF n < Len(s) THEN n ELSE Len(s))

\* np.min of a non-empty array
Min(S) == CHOOSE m \in S : \A v \in S : m <= v

\* np.sort of a set of distinct integers
RECURSIVE SortInts(_)
SortInts(S) ==
    IF S = {} THEN <<>> ELSE <<Min(S)>> \o SortInts(S \ {Min(S)})

\* sorted distinct strings
RECURSIVE SortStrs(_)
SortStrs(S) ==
    IF S = {} THEN <<>>
    ELSE LET m == CHOOSE s \in S : \A t \in S : t = s \/ StrLess(s, t)
         IN  <<m>> \o SortStrs(S \ {m})

IndexOf(s, v) == CHOOSE k \in 1..Len(s) : s[k] = v

----------------------------------------------------------------------------
(* set_balance *)

\* DataFrame.query('MJD < @observation_cutoff'): row order is kept
query(table, cutoff) == SelectSeq(table, LAMBDA row : row.MJD < cutoff)

\* nonlens['objectId'].unique()[: self.NUM_POSITIVES]
final_nonlenses(nonlens, P) == Take(unique(Column(nonlens, "objectId")), P)

\* nonlens[nonlens['objectId'].isin(final_nonlenses)]: a new frame
isin_select(nonlens, ids) == SelectSeq(nonlens, LAMBDA row : row.objectId \in Range(ids))

\* The call set_balance(frames[l], frames[n], cutoff).  Both queries are in
\* place; the object selection allocates frame "nonlens_sel".  `abort` is the
\* line of the failed assertion, or "none".
set_balance(fr, l, n, cutoff, P) ==
    LET nl   == query(fr[n], cutoff)
        ln   == query(fr[l], cutoff)
        fr1  == [fr EXCEPT ![n] = nl, ![l] = ln]
        T    == nunique(Column(nl, "MJD"))
        sel  == isin_select(nl, final_nonlenses(nl, P))
        fr2  == [fr1 EXCEPT !["nonlens_sel"] = sel]
    IN  IF T # nunique(Column(ln, "MJD"))
        THEN [frames |-> fr1, NUM_TIMES |-> T, lens |-> l, nonlens |-> n, abort |-> "line57"]
        ELSE IF Len(ln) # Len(sel)
        THEN [frames |-> fr2, NUM_TIMES |-> T, lens |-> l, nonlens |-> n, abort |-> "line64"]
        ELSE [frames |-> fr2, NUM_TIMES |-> T, lens |-> l, nonlens |-> "nonlens_sel",
              abort |-> "none"]

----------------------------------------------------------------------------
(* set_additional_columns *)

\* the square root of a perfect square
ISqrt(n) == CHOOSE r \in 0..n : r * r = n

\* data_utils.e1e2_to_ephi is not part of the sources.  It is the pure function
\* (e1, e2) -> (sqrt(e1^2 + e2^2), 0.5 * atan2(e2, e1)); the tables of the model
\* keep e1 > 0 and e2 = 0, where the angle is 0.
e1e2_to_ephi(e1, e2) ==
    <<ISqrt(e1 * e1 + e2 * e2), CASE e2 = 0 /\ e1 > 0 -> 0>>

\* src['e'], src['phi'] = e1e2_to_ephi(...)
add_ephi(table) ==
    [k \in 1..Len(table) |->
        [e |-> e1e2_to_ephi(table[k].e1, table[k].e2)[1],
         phi |-> e1e2_to_ephi(table[k].e1, table[k].e2)[2]] @@ table[k]]

\* src['MJD'] = src['MJD'] - np.min(src['MJD'].values), on a non-empty table
rebase_MJD(table) ==
    LET m == Min(Range(Column(table, "MJD")))
    IN  [k \in 1..Len(table) |-> [table[k] EXCEPT !.MJD = @ - m]]

\* variant: the identifiers in order of first appearance, np.sort forgotten
unsorted_obs_id(table) == unique(Column(table, "ccdVisitId"))

\* np.sort(src['ccdVisitId'].unique())
sorted_obs_id(table) == SortInts(Range(Column(table, "ccdVisitId")))

\* dict(zip(sorted_obs_id, range(self.NUM_TIMES))): zip stops at the shorter one
time_map(table, T) ==
    LET ids == sorted_obs_id(table)
        n   == IF Len(ids) < T THEN Len(ids) ELSE T
    IN  [v \in {ids[k] : k \in 1..n} |-> IndexOf(ids, v) - 1]

\* src['time_index'] = src['ccdVisitId'].map(time_map).astype(int), when every
\* identifier is mapped
add_time_index(table, T) ==
    [k \in 1..Len(table) |->
        [time_index |-> time_map(table, T)[table[k].ccdVisitId]] @@ table[k]]

\* the order of sort_values(['objectId', 'filter', 'MJD'])
RowLess(a, b) ==
    \/ a.objectId < b.objectId
    \/ a.objectId = b.objectId /\ StrLess(Spell[a.filter], Spell[b.filter])
    \/ a.objectId = b.objectId /\ a.filter = b.filter /\ a.MJD < b.MJD

\* sort_values on several keys is stable: equal rows keep their order
RECURSIVE sort_values(_)
sort_values(table) ==
    IF table = <<>> THEN <<>>
    ELSE LET init == sort_values(SubSeq(table, 1, Len(table) - 1))
             last == table[Len(table)]
             k    == Cardinality({j \in 1..Len(init) : ~RowLess(last, init[j])})
         IN  SubSeq(init, 1, k) \o <<last>> \o SubSeq(init, k + 1, Len(init))

\* src['MJD'].shift(+1): the previous ROW of the whole table, NaN for the first
shift(col) == [k \in 1..Len(col) |-> IF k = 1 THEN <<>> ELSE <<col[k - 1]>>]

\* src['MJD'] - src['MJD'].shift(+1); fillna(0.0); np.clip(a_min=0.0)
d_time(table) ==
    LET mjd  == Column(table, "MJD")
        prev == shift(mjd)
        diff == [k \in 1..Len(mjd) |-> IF prev[k] = <<>> THEN <<>> ELSE <<mjd[k] - prev[k][1]>>]
        fill == [k \in 1..Len(mjd) |-> IF diff[k] = <<>> THEN 0 ELSE diff[k][1]]
    IN  [k \in 1..Len(mjd) |-> IF fill[k] < 0 THEN 0 ELSE fill[k]]

add_d_time(table) ==
    [k \in 1..Len(table) |-> [d_time |-> d_time(table)[k]] @@ table[k]]

\* variant: drop without inplace=True, which leaves the frame as it was
drop_not_inplace(table) == table

\* src.drop(['MJD', 'ccdVisitId'], axis=1, inplace=True)
drop(table) ==
    [k \in 1..Len(table) |->
        [c \in DOMAIN table[k] \ {"MJD", "ccdVisitId"} |-> table[k][c]]]

\* One pass of the loop body on one frame.  `error` is the line that raised
\* (np.min of an empty array at 82; astype(int) of an unmapped, NaN, time
\* index at 86) with the frame as mutated so far, or "none".
derive(table, T) ==
    LET t1 == add_ephi(table)
    IN  IF t1 = <<>> THEN [table |-> t1, error |-> "line82"]
        ELSE LET t2 == rebase_MJD(t1)
             IN  IF \E k \in 1..Len(t2) : t2[k].ccdVisitId \notin DOMAIN time_map(t2, T)
                 THEN [table |-> t2, error |-> "line86"]
                 ELSE [table |-> drop(add_d_time(sort_values(add_time_index(t2, T)))),
                       error |-> "none"]

\* The call set_additional_columns(frames[l], frames[n]): every step writes
\* into the argument frames, and the same two objects are returned.
set_additional_columns(fr, l, n, T) ==
    LET dl  == derive(fr[l], T)
        fr1 == [fr EXCEPT ![l] = dl.table]
        dn  == derive(fr1[n], T)
        fr2 == [fr1 EXCEPT ![n] = dn.table]
    IN  IF dl.error # "none"
        THEN [frames |-> fr1, lens |-> l, nonlens |-> n, error |-> dl.error]
        ELSE [frames |-> fr2, lens |-> l, nonlens |-> n, error |-> dn.error]

----------------------------------------------------------------------------
(* Floats: a finite float is a reduced fraction <<num, den>>, NaN is <<>> *)

NaN == <<>>

RECURSIVE Gcd(_, _)
Gcd(a, b) == IF b = 0 THEN a ELSE Gcd(b, a % b)

Abs(n) == IF n < 0 THEN -n ELSE n

Frac(n, d) ==
    LET g == Gcd(Abs(n), d)
    IN  IF n = 0 THEN <<0, 1>> ELSE <<n \div g, d \div g>>

Float(n) == <<n, 1>>

FracAdd(a, b) == Frac(a[1] * b[2] + b[1] * a[2], a[2] * b[2])

RECURSIVE FracSum(_)
FracSum(s) == IF s = <<>> THEN <<0, 1>> ELSE FracAdd(Head(s), FracSum(Tail(s)))

\* the default aggfunc of pivot_table: the mean of the non-null values, NaN
\* when there is none
mean(vals) ==
    LET present == SelectSeq(vals, LAMBDA v : v # NaN)
        total   == FracSum(present)
    IN  IF present = <<>> THEN NaN ELSE Frac(total[1], total[2] * Len(present))

----------------------------------------------------------------------------
(* make_data_array *)

\* DataFrame.pivot_table(index, columns, values, dropna=False) with the default
\* aggfunc and sort: a frame whose index is `index` (the sorted keys; for a
\* two-level index the cartesian product of the levels), whose columns are the
\* pairs (value name, column key) in sorted order, and whose cell is the mean
\* of the source rows with that index key and column key.  Each row is given
\* as [key |-> its index key, col |-> its column key, val |-> its values].
pivot_table(rows, index, colkeys, values) ==
    LET columns == Product(values, colkeys)
    IN  [index   |-> index,
         columns |-> columns,
         data    |-> [i \in 1..Len(index) |-> [j \in 1..Len(columns) |->
                        LET hit == SelectSeq(rows, LAMBDA row :
                                       row.key = index[i] /\ row.col = columns[j][2])
                        IN  mean([k \in 1..Len(hit) |-> hit[k].val[columns[j][1]]])]]]

\* column names in the order sort_index(axis=1) gives them
sorted_names(names) ==
    LET spelt == SortStrs({Spell[a] : a \in names})
    IN  [k \in 1..Len(spelt) |-> CHOOSE a \in names : Spell[a] = spelt[k]]

\* self.attributes, sorted, for either attribute list
sorted_attribute_lists ==
    [lc \in BOOLEAN |->
        sorted_names(Range(IF lc THEN lightcurve_attributes ELSE all_attributes))]

\* the sorted attribute names, as sort_index(axis=1) orders level 0
sorted_attributes == sorted_attribute_lists[lightcurve_only]

\* the filters present in the table, sorted
sorted_filters(src) == sorted_names(Range(Column(src, "filter")))

\* self.filtered_attributes, sorted, for either attribute list
sorted_filtered_lists == [lc \in BOOLEAN |-> SortStrs(Range(filtered[lc]))]

\* the names of self.filtered_attributes, as sort_index(axis=1) orders level 0
sorted_filtered_attributes == sorted_filtered_lists[lightcurve_only]

\* self.attributes[:] + ['u', 'g', 'r', 'i', 'z'], sorted, for either
\* attribute list
sorted_ohfiltered_lists ==
    [lc \in BOOLEAN |->
        sorted_names(Range(IF lc THEN lightcurve_attributes ELSE all_attributes)
                        \cup Range(ugriz))]

\* ohfiltered_attributes, as sort_index(axis=1) orders level 0
sorted_ohfiltered_attributes == sorted_ohfiltered_lists[lightcurve_only]

\* pd.get_dummies(data=src, prefix='', prefix_sep='', columns=['filter']): the
\* filter column gives way to one indicator column per filter present in it
get_dummies(src) ==
    LET present == Range(Column(src, "filter"))
    IN  [names |-> (Range(attributes) \cup {"time_index", "objectId"}) \cup present,
         rows  |-> [k \in 1..Len(src) |->
                      [c \in (DOMAIN src[k] \ {"filter"}) \cup present |->
                          IF c \in present THEN (IF src[k].filter = c THEN 1 ELSE 0)
                          ELSE src[k][c]]]]

\* one-hot layout, 2. src.pivot_table(index=['objectId'], columns=['time_index'],
\*                                    values=ohfiltered_attributes, dropna=False)
pivot_onehot(oh) ==
    pivot_table([i \in 1..Len(oh.rows) |->
                    [key |-> oh.rows[i].objectId,
                     col |-> oh.rows[i].time_index,
                     val |-> [a \in DOMAIN oh.rows[i] |-> Float(oh.rows[i][a])]]],
                SortInts(Range(Column(oh.rows, "objectId"))),
                SortInts(Range(Column(oh.rows, "time_index"))),
                sorted_ohfiltered_attributes)

\* per-filter layout, 1. src.pivot_table(index=['objectId', 'time_index'],
\*                          columns=['filter'], values=self.attributes, dropna=False)
pivot_filters(src) ==
    pivot_table([i \in 1..Len(src) |->
                    [key |-> <<src[i].objectId, src[i].time_index>>,
                     col |-> src[i].filter,
                     val |-> [a \in Range(attributes) |-> Float(src[i][a])]]],
                Product(SortInts(Range(Column(src, "objectId"))),
                        SortInts(Range(Column(src, "time_index")))),
                sorted_filters(src),
                sorted_attributes)

\* 2. src.columns.map('{0[1]}_{0[0]}'.format), then reset_index: a frame with
\* the columns objectId, time_index and one per filter_attribute name
collapse_filters(pv) ==
    [names |-> [j \in 1..Len(pv.columns) |-> FilterAttr(pv.columns[j][2], pv.columns[j][1])],
     rows  |-> [i \in 1..Len(pv.index) |->
                  [objectId |-> pv.index[i][1], time_index |-> pv.index[i][2],
                   cells |-> pv.data[i]]]]

\* 3. src.pivot_table(index=['objectId'], columns=['time_index'],
\*                    values=self.filtered_attributes, dropna=False)
pivot_times(wide) ==
    pivot_table([i \in 1..Len(wide.rows) |->
                    [key |-> wide.rows[i].objectId,
                     col |-> wide.rows[i].time_index,
                     val |-> [name \in Range(wide.names) |->
                                wide.rows[i].cells[IndexOf(wide.names, name)]]]],
                SortInts({wide.rows[i].objectId : i \in 1..Len(wide.rows)}),
                SortInts({wide.rows[i].time_index : i \in 1..Len(wide.rows)}),
                sorted_filtered_attributes)

\* variant: null cells filled with 0.0
fill_null_zero(data) ==
    [i \in 1..Len(data) |-> [j \in 1..Len(data[i]) |->
        IF data[i][j] = NaN THEN Float(0) ELSE data[i][j]]]

\* src[src.isnull()] = -9999.0
fill_null(data) ==
    [i \in 1..Len(data) |-> [j \in 1..Len(data[i]) |->
        IF data[i][j] = NaN THEN Float(SENTINEL) ELSE data[i][j]]]

\* src.values.reshape(n, channels, times).swapaxes(1, 2)
reshape_swapaxes(data, n, channels, times) ==
    [shape |-> <<n, times, channels>>,
     data  |-> [i \in 1..n |-> [t \in 1..times |-> [c \in 1..channels |->
                  data[i][(c - 1) * times + t]]]]]

\* np.ones((n, )) * truth_value
ones(n, truth_value) == [i \in 1..n |-> truth_value]

\* src[self.attributes + ['time_index', 'objectId', 'filter']]: a new frame
select_columns(src) ==
    [k \in 1..Len(src) |->
        [c \in Range(attributes) \cup {"time_index", "objectId", "filter"} |-> src[k][c]]]

\* variant: the row-count assertion left out
row_count_unchecked(src, P, T) == TRUE

\* assert src.shape[0] == self.NUM_POSITIVES*self.NUM_TIMES
row_count_ok(src, P, T) == Len(src) = P * T

\* the one-hot layout, after the row-count assertion
make_onehot(src, truth_value, P, T) ==
    LET oh == get_dummies(src)
        pv == pivot_onehot(oh)
        C  == NUM_ATTRIBUTES + NUM_FILTERS
        no == [X |-> NaN, y |-> NaN, dummies |-> TRUE]
    IN  IF <<Len(oh.rows), Cardinality(oh.names)>> # <<P * T, C + 2>>
        THEN no @@ [abort |-> "line123", pivots |-> 0]
        ELSE IF <<Len(pv.index), Len(pv.columns)>> # <<P, C * T>>
        THEN no @@ [abort |-> "line140", pivots |-> 1]
        ELSE [X |-> reshape_swapaxes(fill_null(pv.data), P, C, T),
              y |-> ones(P, truth_value), abort |-> "none", pivots |-> 1, dummies |-> TRUE]

\* the per-filter-column layout, after the row-count assertion
make_filtered(src, truth_value, P, T) ==
    LET pv1  == pivot_filters(src)
        wide == collapse_filters(pv1)
        pv2  == pivot_times(wide)
        C    == NUM_FILTERS * NUM_ATTRIBUTES
        no   == [X |-> NaN, y |-> NaN, dummies |-> FALSE]
    IN  IF <<Len(pv1.index), Len(pv1.columns)>> # <<P * T, NUM_ATTRIBUTES * NUM_FILTERS>>
        THEN no @@ [abort |-> "line153", pivots |-> 1]
        ELSE IF <<Len(wide.rows), Len(wide.names) + 2>> # <<P * T, NUM_ATTRIBUTES * NUM_FILTERS + 2>>
        THEN no @@ [abort |-> "line159", pivots |-> 1]
        ELSE IF Range(wide.names) \ Range(filtered_attributes) # {}
        THEN no @@ [abort |-> "line162", pivots |-> 1]
        ELSE IF <<Len(pv2.index), Len(pv2.columns)>> # <<P, C * T>>
        THEN no @@ [abort |-> "line180", pivots |-> 2]
        ELSE [X |-> reshape_swapaxes(fill_null(pv2.data), P, C, T),
              y |-> ones(P, truth_value), abort |-> "none", pivots |-> 2, dummies |-> FALSE]

\* The call make_data_array(src, truth_value).  `abort` is the line of the
\* failed assertion, or "none"; `pivots` counts the pivots performed and
\* `dummies` tells whether get_dummies ran.
make_data_array(src, truth_value, P, T) ==
    IF ~row_count_ok(src, P, T)
    THEN [X |-> NaN, y |-> NaN, abort |-> "line114", pivots |-> 0, dummies |-> FALSE]
    ELSE IF onehot_filters THEN make_onehot(select_columns(src), truth_value, P, T)
    ELSE make_filtered(select_columns(src), truth_value, P, T)

----------------------------------------------------------------------------
(* combine_lens_nonlens, shuffle_data *)

\* variant: the two blocks concatenated in the other order
concatenate_swapped(a, b) ==
    [shape |-> <<a.shape[1] + b.shape[1], a.shape[2], a.shape[3]>>, data |-> b.data \o a.data]

\* np.concatenate([a, b], axis=0)
concatenate(a, b) ==
    [shape |-> <<a.shape[1] + b.shape[1], a.shape[2], a.shape[3]>>, data |-> a.data \o b.data]

\* The call combine_lens_nonlens((Xl, yl), (Xn, yn)).
combine_lens_nonlens(Xl, yl, Xn, yn, P) ==
    LET no == [X |-> NaN, y |-> NaN]
    IN  IF Xl.shape # Xn.shape THEN no @@ [abort |-> "line209"]
        ELSE IF Len(yl) # Len(yn) THEN no @@ [abort |-> "line210"]
        ELSE IF concatenate(Xl, Xn).shape[1] # 2 * P THEN no @@ [abort |-> "line215"]
        ELSE [X |-> concatenate(Xl, Xn), y |-> yl \o yn, abort |-> "none"]

\* the values np.random.permutation(n) can return: the orderings of 0..n-1.
\* The generator is seeded (np.random.seed(self.seed)) in combine_lens_nonlens,
\* which fixes one of them; the model keeps them all.
permutation(n) ==
    {q \in [1..n -> 0..(n - 1)] : \A i, j \in 1..n : q[i] = q[j] => i = j}

\* X[p, :]
take_rows(A, q) ==
    [shape |-> <<Len(q), A.shape[2], A.shape[3]>>, data |-> [i \in 1..Len(q) |-> A.data[q[i] + 1]]]

\* variant: the labels left in place
take_labels_unshuffled(v, q) == v

\* y[p, ]
take_labels(v, q) == [i \in 1..Len(q) |-> v[q[i] + 1]]

\* The call shuffle_data(X, y) when np.random.permutation returned q
shuffle_data(A, v, q) == [X |-> take_rows(A, q), y |-> take_labels(v, q)]

----------------------------------------------------------------------------
(* source_to_data: the order of its statements *)

\* variant: the feature file written before the non-lens tensor is built
stages_save_early ==
    <<"set_balance", "set_additional_columns", "make_data_array_lens", "save_features",
      "make_data_array_nonlens", "combine_lens_nonlens", "shuffle_data", "save_labels">>

stages ==
    <<"set_balance", "set_additional_columns", "make_data_array_lens",
      "make_data_array_nonlens", "combine_lens_nonlens", "shuffle_data",
      "save_features", "save_labels">>

\* the statement that follows `stage` in the method the caller invoked
following(stage) ==
    IF entry # "source_to_data" THEN "returned"
    ELSE IF IndexOf(stages, stage) = Len(stages) THEN "done"
    ELSE stages[IndexOf(stages, stage) + 1]

----------------------------------------------------------------------------
(* The source tables the model reads *)

\* the filter of the observation of object o in slot t
Pattern == <<"u", "g", "u", "r", "i", "z">>

Visit(rule, t) == IF rule = "ascending" THEN 100 + t ELSE 200 - t

base_row(o, t, rule) ==
    [objectId |-> o,
     filter |-> Pattern[(((o - 1) * NumSlots + (t - 1)) % Len(Pattern)) + 1],
     MJD |-> t, ccdVisitId |-> Visit(rule, t),
     psf_fwhm |-> 2, x |-> o, y |-> t, apFlux |-> 100 * o + t, apFluxErr |-> 3,
     apMag |-> 10 * o + t, apMagErr |-> 1, trace |-> 4, e1 |-> o, e2 |-> 0]

\* n objects observed once in each of the NumSlots slots, object by object
base_table(n, rule) ==
    [k \in 1..(n * NumSlots) |->
        base_row(((k - 1) \div NumSlots) + 1, ((k - 1) % NumSlots) + 1, rule)]

Reverse(s) == [k \in 1..Len(s) |-> s[Len(s) + 1 - k]]

\* one change to a table: none, a row dropped, one field of a row overwritten,
\* or a row overwritten by a second observation of another row's cell
Edits(table) ==
    {<<"none", 0, "", 0>>}
    \cup {<<"drop", i, "", 0>> : i \in 1..Len(table)}
    \cup {<<"set", i, "objectId", v>> : i \in 1..Len(table), v \in {1, 2, 3}}
    \cup {<<"set", i, "filter", f>> : i \in 1..Len(table), f \in Range(ugriz)}
    \cup {<<"set", i, "MJD", m>> : i \in 1..Len(table), m \in 1..(NumSlots + 1)}
    \cup {<<"set", i, "ccdVisitId", v>> : i \in 1..Len(table), v \in {150}}
    \cup {<<"copy", i, "", j>> : i \in 1..Len(table), j \in 1..Len(table)}

Apply(table, ed) ==
    CASE ed[1] = "none" -> table
      [] ed[1] = "drop" -> SubSeq(table, 1, ed[2] - 1) \o SubSeq(table, ed[2] + 1, Len(table))
      [] ed[1] = "set"  -> [table EXCEPT ![ed[2]][ed[3]] = ed[4]]
      [] ed[1] = "copy" -> [table EXCEPT ![ed[2]] = [table[ed[4]] EXCEPT !.apMag = 77]]

\* a tensor of the given shape whose cells are all distinct
tensor(tag, n, t, c) ==
    [shape |-> <<n, t, c>>,
     data  |-> [i \in 1..n |-> [j \in 1..t |-> [k \in 1..c |->
                  Float(1000 * tag + 100 * i + 10 * j + k)]]]]

----------------------------------------------------------------------------
(* Initial states *)

\* Dataloader(lens_source_path, nonlens_source_path, onehot_filters=oh,
\* lightcurve_only=lc, observation_cutoff=cutoff) followed by a call of
\* source_to_data.  With lightcurve_only and without onehot_filters the
\* whole family of tables is read; with the other settings, every lens table
\* of the family beside a regular non-lens table, without cutoff.
InitSourceToData ==
    \E nl \in LensCounts, nn \in NonlensCounts, rule \in {"ascending", "descending"},
       rev \in BOOLEAN, cutoff \in {1, NumSlots, Infinity}, lc \in BOOLEAN, oh \in BOOLEAN :
      \E el \in Edits(base_table(nl, rule)), en \in Edits(base_table(nn, rule)) :
        LET lens    == Apply(base_table(nl, rule), el)
            nonlens == IF rev THEN Reverse(Apply(base_table(nn, rule), en))
                       ELSE Apply(base_table(nn, rule), en)
        IN  /\ el[1] = "none" \/ en[1] = "none" \/ el = en
            /\ \/ lc /\ ~oh
               \/ rule = "ascending" /\ ~rev /\ cutoff = Infinity /\ en[1] = "none"
            /\ entry = "source_to_data"
            /\ pc = "set_balance"
            /\ frames = [lens_csv |-> lens, nonlens_csv |-> nonlens, nonlens_sel |-> <<>>]
            /\ self_lens = "lens_csv"
            /\ self_nonlens = "nonlens_csv"
            /\ NUM_POSITIVES = nunique(Column(lens, "objectId"))
            /\ NUM_TIMES = None
            /\ observation_cutoff = cutoff
            /\ lightcurve_only = lc
            /\ onehot_filters = oh
            /\ X_lens = NaN /\ y_lens = NaN /\ X_nonlens = NaN /\ y_nonlens = NaN

\* a Dataloader on which the caller invokes combine_lens_nonlens directly,
\* with tensors of any shapes
InitCombine ==
    \E n1, n2, m2, P \in 0..MaxDim, t1, t2, c1, c2 \in 1..MaxDim :
        /\ entry = "combine_lens_nonlens"
        /\ pc = "combine_lens_nonlens"
        /\ frames = [lens_csv |-> <<>>, nonlens_csv |-> <<>>, nonlens_sel |-> <<>>]
        /\ self_lens = "lens_csv"
        /\ self_nonlens = "nonlens_csv"
        /\ NUM_POSITIVES = P
        /\ NUM_TIMES = None
        /\ observation_cutoff = Infinity
        /\ lightcurve_only = FALSE
        /\ onehot_filters = FALSE
        /\ X_lens = tensor(1, n1, t1, c1) /\ y_lens = ones(n1, 1)
        /\ X_nonlens = tensor(0, n2, t2, c2) /\ y_nonlens = ones(m2, 0)

Init ==
    /\ InitSourceToData \/ InitCombine
    /\ abort_at = "none"
    /\ trace = <<>>
    /\ before_derive = NaN
    /\ X = NaN /\ y = NaN
    /\ combined = NaN
    /\ p = <<>>
    /\ pivots = 0
    /\ dummies = FALSE
    /\ features_file = <<>>
    /\ labels_file = <<>>

----------------------------------------------------------------------------
(* Actions: the statements of source_to_data *)

Abort(line) == pc' = "aborted" /\ abort_at' = line /\ UNCHANGED trace

Return(stage) ==
    pc' = following(stage) /\ trace' = Append(trace, stage) /\ UNCHANGED abort_at

\* self.lens, self.nonlens = self.set_balance(self.lens, self.nonlens, ...)
Balance ==
    /\ pc = "set_balance"
    /\ LET r == set_balance(frames, self_lens, self_nonlens, observation_cutoff, NUM_POSITIVES)
       IN  /\ frames' = r.frames
           /\ NUM_TIMES' = r.NUM_TIMES
           /\ self_lens' = r.lens
           /\ self_nonlens' = r.nonlens
           /\ IF r.abort # "none" THEN Abort(r.abort) ELSE Return("set_balance")
    /\ UNCHANGED <<entry, lightcurve_only, onehot_filters, pivots, dummies,
                   NUM_POSITIVES, observation_cutoff, before_derive, X_lens, y_lens,
                   X_nonlens, y_nonlens, X, y, combined, p, features_file, labels_file>>

\* self.lens, self.nonlens = self.set_additional_columns(self.lens, self.nonlens)
Derive ==
    /\ pc = "set_additional_columns"
    /\ LET r == set_additional_columns(frames, self_lens, self_nonlens, NUM_TIMES)
       IN  /\ frames' = r.frames
           /\ self_lens' = r.lens
           /\ self_nonlens' = r.nonlens
           /\ IF r.error # "none" THEN Abort(r.error) ELSE Return("set_additional_columns")
    /\ before_derive' = [lens_ref |-> self_lens, nonlens_ref |-> self_nonlens,
                         lens |-> frames[self_lens], nonlens |-> frames[self_nonlens]]
    /\ UNCHANGED <<entry, lightcurve_only, onehot_filters, pivots, dummies,
                   NUM_POSITIVES, NUM_TIMES, observation_cutoff, X_lens, y_lens,
                   X_nonlens, y_nonlens, X, y, combined, p, features_file, labels_file>>

\* X_lens, y_lens = self.make_data_array(self.lens, truth_value=1)
MakeLens ==
    /\ pc = "make_data_array_lens"
    /\ LET r == make_data_array(frames[self_lens], 1, NUM_POSITIVES, NUM_TIMES)
       IN  /\ X_lens' = r.X
           /\ y_lens' = r.y
           /\ pivots' = r.pivots
           /\ dummies' = r.dummies
           /\ IF r.abort # "none" THEN Abort(r.abort) ELSE Return("make_data_array_lens")
    /\ UNCHANGED <<entry, lightcurve_only, onehot_filters, frames, self_lens, self_nonlens,
                   NUM_POSITIVES, NUM_TIMES, observation_cutoff, before_derive,
                   X_nonlens, y_nonlens, X, y, combined, p, features_file, labels_file>>

\* X_nonlens, y_nonlens = self.make_data_array(self.nonlens, truth_value=0)
MakeNonlens ==
    /\ pc = "make_data_array_nonlens"
    /\ LET r == make_data_array(frames[self_nonlens], 0, NUM_POSITIVES, NUM_TIMES)
       IN  /\ X_nonlens' = r.X
           /\ y_nonlens' = r.y
           /\ pivots' = r.pivots
           /\ dummies' = r.dummies
           /\ IF r.abort # "none" THEN Abort(r.abort) ELSE Return("make_data_array_nonlens")
    /\ UNCHANGED <<entry, lightcurve_only, onehot_filters, frames, self_lens, self_nonlens,
                   NUM_POSITIVES, NUM_TIMES, observation_cutoff, before_derive,
                   X_lens, y_lens, X, y, combined, p, features_file, labels_file>>

\* X, y = self.combine_lens_nonlens(lens_data=..., nonlens_data=...)
Combine ==
    /\ pc = "combine_lens_nonlens"
    /\ LET r == combine_lens_nonlens(X_lens, y_lens, X_nonlens, y_nonlens, NUM_POSITIVES)
       IN  /\ X' = r.X
           /\ y' = r.y
           /\ combined' = [X |-> r.X, y |-> r.y]
           /\ IF r.abort # "none" THEN Abort(r.abort) ELSE Return("combine_lens_nonlens")
    /\ UNCHANGED <<entry, lightcurve_only, onehot_filters, pivots, dummies,
                   frames, self_lens, self_nonlens, NUM_POSITIVES, NUM_TIMES,
                   observation_cutoff, before_derive, X_lens, y_lens, X_nonlens, y_nonlens,
                   p, features_file, labels_file>>

\* X, y = self.shuffle_data(X, y)
Shuffle ==
    /\ pc = "shuffle_data"
    /\ \E q \in permutation(2 * NUM_POSITIVES) :
           /\ p' = q
           /\ X' = shuffle_data(X, y, q).X
           /\ y' = shuffle_data(X, y, q).y
    /\ Return("shuffle_data")
    /\ UNCHANGED <<entry, lightcurve_only, onehot_filters, pivots, dummies,
                   frames, self_lens, self_nonlens, NUM_POSITIVES, NUM_TIMES,
                   observation_cutoff, before_derive, X_lens, y_lens, X_nonlens, y_nonlens,
                   combined, features_file, labels_file>>

\* np.save(features_path, X)
SaveFeatures ==
    /\ pc = "save_features"
    /\ features_file' = <<X>>
    /\ Return("save_features")
    /\ UNCHANGED <<entry, lightcurve_only, onehot_filters, pivots, dummies,
                   frames, self_lens, self_nonlens, NUM_POSITIVES, NUM_TIMES,
                   observation_cutoff, before_derive, X_lens, y_lens, X_nonlens, y_nonlens,
                   X, y, combined, p, labels_file>>

\* np.save(labels_path, y)
SaveLabels ==
    /\ pc = "save_labels"
    /\ labels_file' = <<y>>
    /\ Return("save_labels")
    /\ UNCHANGED <<entry, lightcurve_only, onehot_filters, pivots, dummies,
                   frames, self_lens, self_nonlens, NUM_POSITIVES, NUM_TIMES,
                   observation_cutoff, before_derive, X_lens, y_lens, X_nonlens, y_nonlens,
                   X, y, combined, p, features_file>>

Next ==
    \/ Balance
    \/ Derive
    \/ MakeLens
    \/ MakeNonlens
    \/ Combine
    \/ Shuffle
    \/ SaveFeatures
    \/ SaveLabels

Spec == Init /\ [][Next]_vars

----------------------------------------------------------------------------
(* Properties *)

Done(stage) == stage \in Range(trace)

\* source_to_data has just got the result of `stage`
Returned(stage) == entry = "source_to_data" /\ pc = following(stage)

Rows(table) == 1..Len(table)

\* the rows of a table that observe object o through filter f
Group(table, o, f) == SelectSeq(table, LAMBDA row : row.objectId = o /\ row.filter = f)

\* a sequence of integers in ascending order, repetitions kept
RECURSIVE Ascending(_)
Ascending(s) ==
    IF s = <<>> THEN <<>>
    ELSE LET init == Ascending(SubSeq(s, 1, Len(s) - 1))
             k    == Cardinality({j \in 1..Len(init) : init[j] <= s[Len(s)]})
         IN  SubSeq(init, 1, k) \o <<s[Len(s)]>> \o SubSeq(init, k + 1, Len(init))

RECURSIVE Sum(_)
Sum(s) == IF s = <<>> THEN 0 ELSE Head(s) + Sum(Tail(s))

\* C1: whenever set_balance returns normally, (a) every row of both returned
\* tables has MJD below the cutoff, (b) both tables have the same number of
\* distinct MJD values, which is NUM_TIMES, and (c) they have the same row
\* count.
C1_BalanceContract ==
    Returned("set_balance") =>
        LET lens == frames[self_lens]
            nonlens == frames[self_nonlens]
        IN  /\ \A k \in Rows(lens) : lens[k].MJD < observation_cutoff
            /\ \A k \in Rows(nonlens) : nonlens[k].MJD < observation_cutoff
            /\ nunique(Column(nonlens, "MJD")) = nunique(Column(lens, "MJD"))
            /\ nunique(Column(lens, "MJD")) = NUM_TIMES
            /\ Len(lens) = Len(nonlens)

\* the d_time values C2 expects for the group (o, f) of a table: 0 for its
\* first observation in time, then the gaps between consecutive timestamps
ExpectedDeltas(before, o, f) ==
    LET mjd == Ascending(Column(Group(before, o, f), "MJD"))
    IN  [k \in 1..Len(mjd) |-> IF k = 1 THEN 0 ELSE mjd[k] - mjd[k - 1]]

DeltasPerGroup(before, after) ==
    /\ \A k \in Rows(after) : after[k].d_time >= 0
    /\ \A k \in Rows(before) :
          Column(Group(after, before[k].objectId, before[k].filter), "d_time")
              = ExpectedDeltas(before, before[k].objectId, before[k].filter)

\* C2: after set_additional_columns, in every (objectId, filter) group the
\* first observation in time has d_time 0, every other one has d_time equal to
\* its timestamp minus the previous timestamp of the group, and no d_time is
\* negative.
C2_DeltaPerGroup ==
    Returned("set_additional_columns") =>
        /\ DeltasPerGroup(before_derive.lens, frames[self_lens])
        /\ DeltasPerGroup(before_derive.nonlens, frames[self_nonlens])

\* the i-th object of a table, as the object axis of its tensor orders them
ObjectAt(src, i) == SortInts(Range(Column(src, "objectId")))[i]

\* a channel is <<attribute, filter>> in the per-filter layout and
\* <<column, "any">> in the one-hot layout, where the column is an attribute or
\* the indicator of a filter

\* the rows of src that fall into the cell (o, t, ch)
Observations(src, o, t, ch) ==
    SelectSeq(src, LAMBDA row : /\ row.objectId = o
                                /\ row.time_index = t
                                /\ ch[2] \in {"any", row.filter})

\* what a row contributes to channel ch
Reading(row, ch) ==
    IF ch[1] \in Range(ugriz) THEN (IF row.filter = ch[1] THEN 1 ELSE 0) ELSE row[ch[1]]

\* the channels in the declared order of self.filtered_attributes
DeclaredChannelLists ==
    [lc \in BOOLEAN |-> Product(IF lc THEN lightcurve_attributes ELSE all_attributes, ugriz)]

DeclaredChannels == DeclaredChannelLists[lightcurve_only]

\* the channels in the order the pivots produce: by the string
\* filter_attribute in the per-filter layout, by column name in the one-hot
\* layout
PivotChannelLists ==
    [lc \in BOOLEAN |-> [oh \in BOOLEAN |->
        IF oh
        THEN [c \in 1..Len(sorted_ohfiltered_lists[lc]) |->
                 <<sorted_ohfiltered_lists[lc][c], "any">>]
        ELSE [c \in 1..Len(sorted_filtered_lists[lc]) |->
                 CHOOSE af \in Range(DeclaredChannelLists[lc]) :
                     FilterAttr(af[2], af[1]) = sorted_filtered_lists[lc][c]]]]

PivotChannels == PivotChannelLists[lightcurve_only][onehot_filters]

\* the cell holds a value that src observed for it: the sentinel when there is
\* none
HoldsObserved(cell, src, o, t, ch) ==
    LET obs == Observations(src, o, t, ch)
    IN  IF obs = <<>> THEN cell = Float(SENTINEL)
        ELSE \E k \in Rows(obs) : cell = Float(Reading(obs[k], ch))

DeclaredOrder(A, src) ==
    \A i \in 1..A.shape[1], t \in 1..A.shape[2], c \in 1..A.shape[3] :
        HoldsObserved(A.data[i][t][c], src, ObjectAt(src, i), t - 1, DeclaredChannels[c])

\* C3: in the per-filter-column layout, X[o, t, c] is the value of the c-th
\* (attribute, filter) pair of self.filtered_attributes observed for object o at
\* time slot t.
C3_DeclaredChannelOrder ==
    ~onehot_filters =>
        /\ Returned("make_data_array_lens") => DeclaredOrder(X_lens, frames[self_lens])
        /\ Returned("make_data_array_nonlens") =>
              DeclaredOrder(X_nonlens, frames[self_nonlens])

UnchangedValues(A, src) ==
    \A i \in 1..A.shape[1], t \in 1..A.shape[2], c \in 1..A.shape[3] :
        /\ A.data[i][t][c] # NaN
        /\ HoldsObserved(A.data[i][t][c], src, ObjectAt(src, i), t - 1, PivotChannels[c])

\* C4 as claimed: the tensor holds no NaN, a cell is the sentinel exactly when
\* the table has no observation for it, and every other cell carries the
\* observed value unchanged.
C4_ObservedValueUnchanged ==
    /\ Returned("make_data_array_lens") => UnchangedValues(X_lens, frames[self_lens])
    /\ Returned("make_data_array_nonlens") => UnchangedValues(X_nonlens, frames[self_nonlens])

SentinelOrMean(A, src) ==
    \A i \in 1..A.shape[1], t \in 1..A.shape[2], c \in 1..A.shape[3] :
        LET cell == A.data[i][t][c]
            ch   == PivotChannels[c]
            obs  == Observations(src, ObjectAt(src, i), t - 1, ch)
        IN  /\ cell # NaN
            /\ cell = Float(SENTINEL) <=> obs = <<>>
            /\ obs # <<>> =>
                  cell[1] * Len(obs) = cell[2] * Sum([k \in Rows(obs) |-> Reading(obs[k], ch)])

\* C4, amended: the tensor holds no NaN, a cell is the sentinel exactly when
\* the table has no observation for its (object, time slot, channel), and
\* every other cell carries the mean of the observations of that cell (the
\* observed value when there is one), channels being in the order the pivots
\* produce.  In the one-hot layout the observations of a cell are the rows of
\* its object and time slot, and a filter indicator reads 1 or 0 on each.
C4_SentinelOrMean ==
    /\ Returned("make_data_array_lens") => SentinelOrMean(X_lens, frames[self_lens])
    /\ Returned("make_data_array_nonlens") => SentinelOrMean(X_nonlens, frames[self_nonlens])

\* a tensor was built from a table in which two observations of one cell differ
C4_Witness ==
    /\ Returned("make_data_array_lens")
    /\ \E i, j \in Rows(frames[self_lens]) :
          LET a == frames[self_lens][i]
              b == frames[self_lens][j]
          IN  /\ a.objectId = b.objectId /\ a.time_index = b.time_index
              /\ a.filter = b.filter /\ a.apMag # b.apMag
    /\ \E i \in 1..X_lens.shape[1], t \in 1..X_lens.shape[2], c \in 1..X_lens.shape[3] :
          X_lens.data[i][t][c] = Float(SENTINEL)

MakeLines == {"line114", "line123", "line140", "line153", "line159", "line162", "line180"}

\* make_data_array has been called on the lens table / on the non-lens table
CalledOnLens ==
    \/ Done("make_data_array_lens")
    \/ pc = "aborted" /\ abort_at \in MakeLines /\ Len(trace) = 2

CalledOnNonlens ==
    \/ Done("make_data_array_nonlens")
    \/ pc = "aborted" /\ abort_at \in MakeLines /\ Len(trace) = 3

\* the last call of make_data_array failed its first assertion, before any
\* pivot and before the one-hot encoding
AbortedBeforePivot == pc = "aborted" /\ abort_at = "line114" /\ pivots = 0 /\ ~dummies

Objects(table) == nunique(Column(table, "objectId"))

\* C5 as claimed: make_data_array aborts before any pivot whenever the row
\* count of its table differs from (distinct objects of that table) x
\* NUM_TIMES, and every table that a successful set_balance and
\* set_additional_columns produce has exactly that row count.
C5_RowsPerClassObjects ==
    /\ (CalledOnLens /\ ~CalledOnNonlens
          /\ Len(frames[self_lens]) # Objects(frames[self_lens]) * NUM_TIMES)
        => AbortedBeforePivot
    /\ (CalledOnNonlens
          /\ Len(frames[self_nonlens]) # Objects(frames[self_nonlens]) * NUM_TIMES)
        => AbortedBeforePivot
    /\ Returned("set_additional_columns") =>
          /\ Len(frames[self_lens]) = Objects(frames[self_lens]) * NUM_TIMES
          /\ Len(frames[self_nonlens]) = Objects(frames[self_nonlens]) * NUM_TIMES

\* C5, amended: make_data_array aborts at its first assertion, before any
\* pivot, exactly when the row count of its table differs from NUM_POSITIVES x
\* NUM_TIMES, NUM_POSITIVES being the number of distinct lens objects counted
\* at construction (for both classes); a successful set_balance followed by
\* set_additional_columns guarantees only that the two tables have the same
\* row count.
C5_RowsPerPositives ==
    /\ (CalledOnLens /\ ~CalledOnNonlens) =>
          (Len(frames[self_lens]) # NUM_POSITIVES * NUM_TIMES <=> AbortedBeforePivot)
    /\ CalledOnNonlens =>
          (Len(frames[self_nonlens]) # NUM_POSITIVES * NUM_TIMES <=> AbortedBeforePivot)
    /\ (pc = "aborted" /\ abort_at \in MakeLines \ {"line114"}) => (pivots > 0 \/ dummies)
    /\ Returned("set_additional_columns") =>
          Len(frames[self_lens]) = Len(frames[self_nonlens])

\* set_balance and set_additional_columns succeeded on tables whose row count
\* is not NUM_POSITIVES x NUM_TIMES, and make_data_array stopped before its
\* first pivot
C5_Witness ==
    /\ AbortedBeforePivot
    /\ trace = <<"set_balance", "set_additional_columns">>
    /\ Len(frames[self_lens]) > 0

\* C6: shuffle_data applies one permutation p of 0..2N-1 to the leading axis
\* of X and to y: X_out[i] = X_in[p[i]] and y_out[i] = y_in[p[i]] for every i,
\* every input object appearing exactly once.
C6_SamePermutation ==
    Returned("shuffle_data") =>
        /\ Len(p) = 2 * NUM_POSITIVES
        /\ {p[i] : i \in 1..Len(p)} = 0..(2 * NUM_POSITIVES - 1)
        /\ X.shape = combined.X.shape
        /\ Len(y) = Len(combined.y)
        /\ \A i \in 1..Len(p) :
              /\ X.data[i] = combined.X.data[p[i] + 1]
              /\ y[i] = combined.y[p[i] + 1]

\* a shuffle that moved a lens object behind a non-lens object
C6_Witness ==
    /\ Done("shuffle_data")
    /\ y # combined.y
    /\ X # combined.X

Count(s, v) == Cardinality({k \in 1..Len(s) : s[k] = v})

\* combine_lens_nonlens has run on two tensors
CombineCalled == X_lens # NaN /\ X_nonlens # NaN /\ pc # "combine_lens_nonlens"

\* C7: combine_lens_nonlens returns the lens tensor followed by the non-lens
\* tensor and the lens labels followed by the non-lens labels; it aborts when
\* the time or channel axes of the two tensors differ; in source_to_data with N
\* lens objects the result has shape (2N, NUM_TIMES, channels), N labels 1 and
\* N labels 0.
C7_LensThenNonlens ==
    /\ pc = following("combine_lens_nonlens") =>
          /\ combined.X.shape[1] = X_lens.shape[1] + X_nonlens.shape[1]
          /\ combined.X.data = X_lens.data \o X_nonlens.data
          /\ combined.y = y_lens \o y_nonlens
    /\ (CombineCalled /\ <<X_lens.shape[2], X_lens.shape[3]>>
                            # <<X_nonlens.shape[2], X_nonlens.shape[3]>>)
          => (pc = "aborted" /\ abort_at = "line209")
    /\ Returned("combine_lens_nonlens") =>
          /\ combined.X.shape =
                <<2 * NUM_POSITIVES, NUM_TIMES,
                  IF onehot_filters THEN NUM_ATTRIBUTES + NUM_FILTERS
                  ELSE NUM_FILTERS * NUM_ATTRIBUTES>>
          /\ Len(combined.y) = 2 * NUM_POSITIVES
          /\ Count(combined.y, 1) = NUM_POSITIVES
          /\ Count(combined.y, 0) = NUM_POSITIVES

\* source_to_data combined the tensors of two lens and two non-lens objects
C7_Witness ==
    /\ Returned("combine_lens_nonlens")
    /\ NUM_POSITIVES = 2
    /\ X_lens.data # X_nonlens.data

IsPrefix(s, t) == Len(s) <= Len(t) /\ SubSeq(t, 1, Len(s)) = s

\* C8: in source_to_data, whenever a stage aborts neither file has been
\* written; the files are written only after set_balance,
\* set_additional_columns, both make_data_array calls, combine_lens_nonlens and
\* shuffle_data have completed, in that order.
C8_NoPartialOutput ==
    entry = "source_to_data" =>
        /\ pc = "aborted" => (features_file = <<>> /\ labels_file = <<>>)
        /\ IsPrefix(trace, <<"set_balance", "set_additional_columns", "make_data_array_lens",
                             "make_data_array_nonlens", "combine_lens_nonlens",
                             "shuffle_data", "save_features", "save_labels">>)
        /\ features_file # <<>> => Len(trace) >= 7
        /\ labels_file # <<>> => (Len(trace) = 8 /\ features_file # <<>>)
        /\ Len(trace) >= 7 => features_file = <<X>>
        /\ Len(trace) = 8 => labels_file = <<y>>

\* the non-lens make_data_array call aborted, after the lens tensor was built
C8_Witness ==
    /\ entry = "source_to_data"
    /\ pc = "aborted"
    /\ trace = <<"set_balance", "set_additional_columns", "make_data_array_lens">>

Columns(table) == UNION {DOMAIN table[k] : k \in Rows(table)}

\* C9 as claimed: set_additional_columns leaves the tables passed to it as
\* they were.
C9_NoSideEffect ==
    Returned("set_additional_columns") =>
        /\ frames[before_derive.lens_ref] = before_derive.lens
        /\ frames[before_derive.nonlens_ref] = before_derive.nonlens

\* the columns of a row that the call neither adds nor drops
Kept(row) ==
    [c \in DOMAIN row \ {"MJD", "ccdVisitId", "e", "phi", "time_index", "d_time"} |-> row[c]]

\* row a comes before row b in the order of (objectId, filter, MJD)
KeyBefore(a, b) ==
    \/ a.objectId < b.objectId
    \/ a.objectId = b.objectId /\ StrLess(Spell[a.filter], Spell[b.filter])
    \/ a.objectId = b.objectId /\ a.filter = b.filter /\ a.MJD < b.MJD

SameKey(a, b) == a.objectId = b.objectId /\ a.filter = b.filter /\ a.MJD = b.MJD

\* `after` holds the rows of `before`, values kept, in ascending order of
\* (objectId, filter, MJD): every row of `before` occurs as often in `after`,
\* and position k of `after` holds a row of `before` whose key has fewer than k
\* rows before it and at least k rows before or beside it
Resorted(before, after) ==
    /\ \A i \in Rows(before) :
          Cardinality({k \in Rows(after) : Kept(after[k]) = Kept(before[i])})
            = Cardinality({j \in Rows(before) : Kept(before[j]) = Kept(before[i])})
    /\ \A k \in Rows(after) : \E i \in Rows(before) :
          LET below  == Cardinality({j \in Rows(before) : KeyBefore(before[j], before[i])})
              beside == Cardinality({j \in Rows(before) : SameKey(before[j], before[i])})
          IN  /\ Kept(after[k]) = Kept(before[i])
              /\ below < k
              /\ k <= below + beside

InPlace(before, after) ==
    /\ Len(after) = Len(before)
    /\ Columns(after) = (Columns(before) \ {"MJD", "ccdVisitId"})
                            \cup {"e", "phi", "time_index", "d_time"}
    /\ \A k \in Rows(after) : DOMAIN after[k] = Columns(after)
    /\ Resorted(before, after)

\* C9, amended: set_additional_columns works in place and returns the very
\* tables passed to it: after the call the caller's tables carry e, phi,
\* time_index and d_time, lack MJD and ccdVisitId, keep their other columns,
\* their row count and the values of their rows, and have their rows re-sorted
\* by (objectId, filter, MJD).
C9_InPlace ==
    Returned("set_additional_columns") =>
        /\ self_lens = before_derive.lens_ref
        /\ self_nonlens = before_derive.nonlens_ref
        /\ InPlace(before_derive.lens, frames[before_derive.lens_ref])
        /\ InPlace(before_derive.nonlens, frames[before_derive.nonlens_ref])

\* the call returned after it moved a row of the lens table: the table was not
\* in the order of (objectId, filter, MJD) when it was passed
C9_Witness ==
    /\ Returned("set_additional_columns")
    /\ "MJD" \in Columns(before_derive.lens)
    /\ \E k \in Rows(before_derive.lens) :
          Kept(frames[before_derive.lens_ref][k]) # Kept(before_derive.lens[k])

\* the zero-based rank of identifier v among the distinct ccdVisitId of a table
Rank(table, v) == Cardinality({w \in Range(Column(table, "ccdVisitId")) : w < v})

\* what identifies an observation across the call, with its time slot
Slotted(row, slot) == <<row.objectId, row.filter, row.apMag, row.apMagErr, slot>>

RankedSlots(before, after, T) ==
    /\ \A k \in Rows(after) : after[k].time_index \in 0..(T - 1)
    /\ \A k \in Rows(before) :
          LET u == Slotted(before[k], Rank(before, before[k].ccdVisitId))
          IN  Cardinality({j \in Rows(after) : Slotted(after[j], after[j].time_index) = u})
                = Cardinality({j \in Rows(before) :
                                  Slotted(before[j], Rank(before, before[j].ccdVisitId)) = u})

\* C10: after set_additional_columns on the tables of a successful
\* set_balance, every row has a time_index equal to the zero-based rank of its
\* ccdVisitId among the distinct ccdVisitId of its table, and every time_index
\* lies in 0..NUM_TIMES-1.
C10_TimeIndexIsRank ==
    Returned("set_additional_columns") =>
        /\ RankedSlots(before_derive.lens, frames[self_lens], NUM_TIMES)
        /\ RankedSlots(before_derive.nonlens, frames[self_nonlens], NUM_TIMES)

\* the object selection left the non-lens table with fewer distinct MJD and
\* fewer distinct ccdVisitId than NUM_TIMES, and the rows are not in rank order
C10_Witness ==
    /\ Returned("set_additional_columns")
    /\ nunique(Column(before_derive.nonlens, "MJD")) < NUM_TIMES
    /\ nunique(Column(before_derive.nonlens, "ccdVisitId")) < NUM_TIMES
    /\ nunique(Column(before_derive.nonlens, "ccdVisitId")) > 1
    /\ Len(before_derive.nonlens) < Len(frames["nonlens_csv"])

====
